---- MODULE Spec2Model ----
(***************************************************************************)
(* A model of src/src/groups.rs of osmpbfreader-rs: the lazy producers     *)
(* that turn the records of one PrimitiveGroup, read against one           *)
(* PrimitiveBlock, into Node / Way / Relation objects.                     *)
(*                                                                         *)
(* Conventions                                                             *)
(*  - A byte string and a String are sequences of numbers (bytes, resp.    *)
(*    code points).  Rust indexes from 0, TLA+ from 1: s[k] is s[k + 1].   *)
(*  - A slice::Iter is the number of elements it has already handed out.   *)
(*  - An f64 coordinate 1e-9 * n is the record [nanodeg |-> n].            *)
(*  - The i64 accumulators stay far inside the i64 range for every input   *)
(*    enumerated here, so no sum wraps.                                    *)
(*  - A failed bounds check (task failure) is the result tag "Panic"; it   *)
(*    sets aborted, after which nothing is pulled any more.                *)
(***************************************************************************)
EXTENDS Integers, Sequences, FiniteSets, TLC

\* ------------------------------------------------------------- bounds
\* Records of one kind in a group, and elements of each dense delta array.
MaxRecs == 2
\* Elements of a refs / memids / types / roles_sid / keys / vals array.
MaxLen == 2
\* Elements of the dense keys_vals stream.
MaxKV == 3

SeqsUpTo(S, n) == UNION {[1..k -> S] : k \in 0..n}

Min2(a, b) == IF a <= b THEN a ELSE b
Min3(a, b, c) == Min2(a, Min2(b, c))

\* ------------------------------------------------------------- inputs
\* String tables.  Bytes are ASCII, or 254 / 255, which no UTF-8 text holds.
FullTable == << <<>>, <<97>>, <<98, 255>> >>
ShortTable == << <<>>, <<97>> >>
ExampleTable == << <<>>, <<97>>, <<98>>, <<99>>, <<100>>, <<101>>, <<102>>, <<103>> >>

Blk(t, g, la, lo) == [s |-> t, granularity |-> g, lat_offset |-> la, lon_offset |-> lo]

TableBlocks == {Blk(FullTable, 100, 0, 0), Blk(ShortTable, 100, 0, 0)}
Blocks == TableBlocks \cup {Blk(FullTable, 1, 5, 7), Blk(FullTable, 100, 7, -5)}
ExampleBlock == Blk(ExampleTable, 100, 0, 0)

Deltas == {3, -1}
Idx == {1, 2}
KVIdx == {0, 1, 2, -1}
MemberTypes == {"NODE", "WAY", "RELATION"}

TagArrs == SeqsUpTo(Idx, MaxLen)

EmptyDense == [id |-> <<>>, lat |-> <<>>, lon |-> <<>>, keys_vals |-> <<>>]
Grp(n, d, w, r) == [nodes |-> n, dense |-> d, ways |-> w, relations |-> r]

\* Simple node records: every coordinate pair, and every pair of tag arrays.
CoordNodeRecs ==
    {[id |-> i, lat |-> la, lon |-> lo, keys |-> <<>>, vals |-> <<>>] :
        i \in {1, 2}, la \in {-3, 4}, lo \in {-3, 4}}
TagNodeRecs ==
    {[id |-> 1, lat |-> 4, lon |-> -3, keys |-> k, vals |-> v] :
        k \in TagArrs, v \in TagArrs}
FewNodeRecs ==
    {[id |-> 1, lat |-> 4, lon |-> -3, keys |-> <<1>>, vals |-> <<1>>],
     [id |-> 2, lat |-> -3, lon |-> 4, keys |-> <<1, 1>>, vals |-> <<1, 2>>]}
SimpleGroups ==
    {Grp(<<r>>, EmptyDense, <<>>, <<>>) : r \in CoordNodeRecs \cup TagNodeRecs}
    \cup {Grp(n, EmptyDense, <<>>, <<>>) : n \in SeqsUpTo(FewNodeRecs, MaxRecs)}

\* Dense records: every shape of the three delta arrays with a few streams,
\* and every stream with well-formed delta arrays.
FewKV == {<<>>, <<1, 2>>, <<0, 1, 2>>}
DenseShapes ==
    {[id |-> i, lat |-> la, lon |-> lo, keys_vals |-> kv] :
        i \in SeqsUpTo(Deltas, MaxRecs), la \in SeqsUpTo({-3}, MaxRecs),
        lo \in SeqsUpTo({4}, MaxRecs), kv \in FewKV}
DenseStreams ==
    {[id |-> [i \in 1..n |-> IF i = 1 THEN 3 ELSE -1], lat |-> [i \in 1..n |-> -3],
      lon |-> [i \in 1..n |-> 4], keys_vals |-> kv] :
        n \in 0..MaxRecs, kv \in SeqsUpTo(KVIdx, MaxKV)}
DenseGroups == {Grp(<<>>, d, <<>>, <<>>) : d \in DenseShapes \cup DenseStreams}

\* Way records: every refs array, and every pair of tag arrays.
RefWayRecs ==
    {[id |-> i, refs |-> r, keys |-> <<>>, vals |-> <<>>] :
        i \in {1, 2}, r \in SeqsUpTo(Deltas, MaxLen)}
TagWayRecs ==
    {[id |-> 1, refs |-> <<3>>, keys |-> k, vals |-> v] : k \in TagArrs, v \in TagArrs}
FewWayRecs ==
    {[id |-> 1, refs |-> <<3, -1>>, keys |-> <<1>>, vals |-> <<2>>],
     [id |-> 2, refs |-> <<-1>>, keys |-> <<>>, vals |-> <<>>]}
WayGroups ==
    {Grp(<<>>, EmptyDense, <<w>>, <<>>) : w \in RefWayRecs \cup TagWayRecs}
    \cup {Grp(<<>>, EmptyDense, w, <<>>) : w \in SeqsUpTo(FewWayRecs, MaxRecs)}

\* Relation records: every shape of the three member arrays.
MemberRelRecs ==
    {[id |-> 1, memids |-> m, types |-> t, roles_sid |-> r, keys |-> <<1>>, vals |-> <<1>>] :
        m \in SeqsUpTo({10, -4}, MaxLen), t \in SeqsUpTo(MemberTypes, MaxLen),
        r \in {[i \in 1..n |-> IF i % 2 = 1 THEN 0 ELSE 2] : n \in 0..MaxLen}}
FewRelRecs ==
    {[id |-> 1, memids |-> <<10, -4>>, types |-> <<"NODE", "WAY">>, roles_sid |-> <<0, 1>>,
      keys |-> <<1, 2>>, vals |-> <<2>>],
     [id |-> 2, memids |-> <<-4, 10>>, types |-> <<"RELATION">>, roles_sid |-> <<2>>,
      keys |-> <<>>, vals |-> <<>>]}
RelGroups ==
    {Grp(<<>>, EmptyDense, <<>>, <<r>>) : r \in MemberRelRecs}
    \cup {Grp(<<>>, EmptyDense, <<>>, r) : r \in SeqsUpTo(FewRelRecs, MaxRecs)}

\* Groups holding all four kinds: the i-th record of a kind has its own id.
TNode(i) == [id |-> 10 + i, lat |-> i, lon |-> -i, keys |-> <<1>>, vals |-> <<1>>]
TWay(i) == [id |-> 30 + i, refs |-> <<3, -1>>, keys |-> <<1>>, vals |-> <<2>>]
TRel(i) ==
    [id |-> 40 + i, memids |-> <<10, -4>>, types |-> <<"NODE", "WAY">>,
     roles_sid |-> <<0, 1>>, keys |-> <<>>, vals |-> <<>>]
TDense(a, b, c) ==
    [id |-> [i \in 1..a |-> IF i = 1 THEN 20 ELSE 1], lat |-> [i \in 1..b |-> i],
     lon |-> [i \in 1..c |-> -2 * i], keys_vals |-> <<1, 1, 0>>]
DenseLens ==
    {<<n, n, n>> : n \in 0..MaxRecs}
    \cup {t \in (0..MaxRecs) \X (0..MaxRecs) \X (0..MaxRecs) :
            \E n \in 1..MaxRecs, k \in 0..MaxRecs :
                k < n /\ t \in {<<k, n, n>>, <<n, k, n>>, <<n, n, k>>}}
MixedGroups ==
    {Grp([i \in 1..ns |-> TNode(i)], TDense(t[1], t[2], t[3]),
         [i \in 1..nw |-> TWay(i)], [i \in 1..nr |-> TRel(i)]) :
        ns \in 0..MaxRecs, t \in DenseLens, nw \in 0..MaxRecs, nr \in 0..MaxRecs}

\* The worked examples of the format description.
ExampleDense ==
    Grp(<<>>, [id |-> <<3, -1>>, lat |-> <<-3, -3>>, lon |-> <<4, 4>>,
               keys_vals |-> <<5, 7, 0, 3, 4>>], <<>>, <<>>)
ExampleWay ==
    Grp(<<>>, EmptyDense, <<[id |-> 1, refs |-> <<3, -1, 2>>, keys |-> <<>>, vals |-> <<>>]>>, <<>>)
ExampleRelation ==
    Grp(<<>>, EmptyDense, <<>>,
        <<[id |-> 1, memids |-> <<10, -4>>, types |-> <<"NODE", "WAY">>,
           roles_sid |-> <<0, 0>>, keys |-> <<>>, vals |-> <<>>]>>)

In(c, b, g) == [caller |-> c, block |-> b, group |-> g]
Inputs ==
    {In("simple_nodes", b, g) : b \in Blocks, g \in SimpleGroups}
    \cup {In("dense_nodes", b, g) : b \in Blocks, g \in DenseGroups}
    \cup {In("ways", b, g) : b \in TableBlocks, g \in WayGroups}
    \cup {In("relations", b, g) : b \in TableBlocks, g \in RelGroups}
    \cup {In(c, b, g) : c \in {"nodes", "iter"}, b \in TableBlocks, g \in MixedGroups}
    \cup {In("dense_nodes", ExampleBlock, ExampleDense), In("ways", ExampleBlock, ExampleWay),
          In("relations", ExampleBlock, ExampleRelation)}

\* ------------------------------------------------------------- state
VARIABLES
    block,      \* the PrimitiveBlock borrowed by the producer
    group,      \* the PrimitiveGroup borrowed by the producer
    caller,     \* which producer was constructed: simple_nodes, dense_nodes, ...
    it,         \* the fields of the iterator structs
    out,        \* history: what the pulls returned inside Some, in order
    kvlog,      \* history: keys_vals position after each dense Node returned
    last,       \* "start", or the tag of the last pull's result: "Some" / "None"
    aborted     \* a bounds check failed

vars == <<block, group, caller, it, out, kvlog, last, aborted>>

\* ------------------------------------------------------------- helpers
REPLACEMENT_CHARACTER == 65533

\* String::from_utf8_lossy on bytes that are ASCII or never valid in UTF-8.
from_utf8_lossy(bytes) ==
    [i \in 1..Len(bytes) |-> IF bytes[i] >= 128 THEN REPLACEMENT_CHARACTER ELSE bytes[i]]

\* `k as uint` for an i32 / u32 k: a negative k wraps to the top of the uint
\* range (here the top of the model checker's integers), past any table.
UintTop == 2147483647
AsUint(k) == IF k < 0 THEN (UintTop + k) + 1 ELSE k

Ok(v) == [ok |-> TRUE, v |-> v]
Fail == [ok |-> FALSE, v |-> <<>>]

\* A bounds check refusing the table's last entry.
make_string_off_by_one(k, b) ==
    IF k + 1 < Len(b.s) THEN Ok(from_utf8_lossy(b.s[k + 1])) ELSE Fail

make_string(k, b) ==
    IF k < Len(b.s) THEN Ok(from_utf8_lossy(b.s[k + 1])) ELSE Fail

make_lat(c, b) == [nanodeg |-> b.lat_offset + b.granularity * c]
make_lon(c, b) == [nanodeg |-> b.lon_offset + b.granularity * c]

EmptyTags == [x \in {} |-> <<>>]
\* An insert that keeps the value a key already has.
Insert_keep_first(tags, k, v) ==
    [x \in (DOMAIN tags) \cup {k} |-> IF x \in DOMAIN tags THEN tags[x] ELSE v]

\* BTreeMap::insert
Insert(tags, k, v) == [x \in (DOMAIN tags) \cup {k} |-> IF x = k THEN v ELSE tags[x]]

RECURSIVE make_tags_loop(_, _, _, _, _)
make_tags_loop(i, keys, vals, b, tags) ==
    IF i > Len(keys) \/ i > Len(vals) THEN Ok(tags)
    ELSE LET k == make_string(AsUint(keys[i]), b)
             v == make_string(AsUint(vals[i]), b)
         IN  IF ~k.ok \/ ~v.ok THEN Fail
             ELSE make_tags_loop(i + 1, keys, vals, b, Insert(tags, k.v, v.v))

make_tags(keys, vals, b) == make_tags_loop(1, keys, vals, b, EmptyTags)

\* ------------------------------------------------------------- producers
Some(v) == [tag |-> "Some", v |-> v]
None == [tag |-> "None", v |-> <<>>]
Panic == [tag |-> "Panic", v |-> <<>>]
Step(st, res) == [st |-> st, res |-> res]

simple_nodes == [simple_iter |-> 0]
dense_nodes ==
    [dids |-> 0, dlats |-> 0, dlons |-> 0, keys_vals |-> 0,
     cur_id |-> 0, cur_lat |-> 0, cur_lon |-> 0]
ways == [ways_iter |-> 0]
relations == [relations_iter |-> 0]
\* The three Chain adaptors, each with its flag.
nodes == [nodes_flag |-> FALSE]
iter == [inner_flag |-> FALSE, outer_flag |-> FALSE]

SimpleNodes_next(st) ==
    IF st.simple_iter >= Len(group.nodes) THEN Step(st, None)
    ELSE LET n == group.nodes[st.simple_iter + 1]
             tags == make_tags(n.keys, n.vals, block)
             st1 == [st EXCEPT !.simple_iter = @ + 1]
         IN  IF ~tags.ok THEN Step(st1, Panic)
             ELSE Step(st1, Some([id |-> n.id,
                                  lat |-> make_lat(n.lat, block),
                                  lon |-> make_lat(n.lon, block),
                                  tags |-> tags.v]))

\* The tag loop leaving the terminating 0 in the stream.
RECURSIVE DenseTags_keep_sentinel(_, _, _, _)
DenseTags_keep_sentinel(p, kv, b, tags) ==
    IF p >= Len(kv) THEN [ok |-> TRUE, pos |-> p, tags |-> tags]
    ELSE IF kv[p + 1] = 0 THEN [ok |-> TRUE, pos |-> p, tags |-> tags]
    ELSE LET k == make_string(AsUint(kv[p + 1]), b)
         IN  IF ~k.ok THEN [ok |-> FALSE, pos |-> p + 1, tags |-> tags]
             ELSE IF p + 1 >= Len(kv) THEN [ok |-> TRUE, pos |-> p + 1, tags |-> tags]
             ELSE LET v == make_string(AsUint(kv[p + 2]), b)
                  IN  IF ~v.ok THEN [ok |-> FALSE, pos |-> p + 2, tags |-> tags]
                      ELSE DenseTags_keep_sentinel(p + 2, kv, b, Insert(tags, k.v, v.v))

\* The tag loop recording a key without value under the empty string.
RECURSIVE DenseTags_keep_dangling(_, _, _, _)
DenseTags_keep_dangling(p, kv, b, tags) ==
    IF p >= Len(kv) THEN [ok |-> TRUE, pos |-> p, tags |-> tags]
    ELSE IF kv[p + 1] = 0 THEN [ok |-> TRUE, pos |-> p + 1, tags |-> tags]
    ELSE LET k == make_string(AsUint(kv[p + 1]), b)
         IN  IF ~k.ok THEN [ok |-> FALSE, pos |-> p + 1, tags |-> tags]
             ELSE IF p + 1 >= Len(kv)
                  THEN [ok |-> TRUE, pos |-> p + 1, tags |-> Insert(tags, k.v, <<>>)]
             ELSE LET v == make_string(AsUint(kv[p + 2]), b)
                  IN  IF ~v.ok THEN [ok |-> FALSE, pos |-> p + 2, tags |-> tags]
                      ELSE DenseTags_keep_dangling(p + 2, kv, b, Insert(tags, k.v, v.v))

\* The tag loop of DenseNodes::next from stream position p.
RECURSIVE DenseTags(_, _, _, _)
DenseTags(p, kv, b, tags) ==
    IF p >= Len(kv) THEN [ok |-> TRUE, pos |-> p, tags |-> tags]
    ELSE IF kv[p + 1] = 0 THEN [ok |-> TRUE, pos |-> p + 1, tags |-> tags]
    ELSE LET k == make_string(AsUint(kv[p + 1]), b)
         IN  IF ~k.ok THEN [ok |-> FALSE, pos |-> p + 1, tags |-> tags]
             ELSE IF p + 1 >= Len(kv) THEN [ok |-> TRUE, pos |-> p + 1, tags |-> tags]
             ELSE LET v == make_string(AsUint(kv[p + 2]), b)
                  IN  IF ~v.ok THEN [ok |-> FALSE, pos |-> p + 2, tags |-> tags]
                      ELSE DenseTags(p + 2, kv, b, Insert(tags, k.v, v.v))

\* A dense accumulator forgetting what it held: cur = delta for cur += delta.
AddDelta_assign(cur, delta) == delta

\* self.cur_id += did, self.cur_lat += dlat, self.cur_lon += dlon
AddDelta(cur, delta) == cur + delta

\* Each delta added as soon as it is read, before the three are matched.
DenseNodes_next_eager(st) ==
    LET d == group.dense
        hasId == st.dids < Len(d.id)
        hasLat == st.dlats < Len(d.lat)
        hasLon == st.dlons < Len(d.lon)
        st1 == [st EXCEPT !.dids = IF hasId THEN @ + 1 ELSE @,
                          !.dlats = IF hasLat THEN @ + 1 ELSE @,
                          !.dlons = IF hasLon THEN @ + 1 ELSE @]
        st2 == [st1 EXCEPT !.cur_id = IF hasId THEN AddDelta(@, d.id[st1.dids]) ELSE @,
                           !.cur_lat = IF hasLat THEN AddDelta(@, d.lat[st1.dlats]) ELSE @,
                           !.cur_lon = IF hasLon THEN AddDelta(@, d.lon[st1.dlons]) ELSE @]
    IN  IF ~(hasId /\ hasLat /\ hasLon) THEN Step(st2, None)
        ELSE LET t == DenseTags(st2.keys_vals, d.keys_vals, block, EmptyTags)
                 st3 == [st2 EXCEPT !.keys_vals = t.pos]
             IN  IF ~t.ok THEN Step(st3, Panic)
                 ELSE Step(st3, Some([id |-> st3.cur_id,
                                      lat |-> make_lat(st3.cur_lat, block),
                                      lon |-> make_lon(st3.cur_lon, block),
                                      tags |-> t.tags]))

DenseNodes_next(st) ==
    LET d == group.dense
        hasId == st.dids < Len(d.id)
        hasLat == st.dlats < Len(d.lat)
        hasLon == st.dlons < Len(d.lon)
        \* the three next() calls of the matched tuple all run
        st1 == [st EXCEPT !.dids = IF hasId THEN @ + 1 ELSE @,
                          !.dlats = IF hasLat THEN @ + 1 ELSE @,
                          !.dlons = IF hasLon THEN @ + 1 ELSE @]
    IN  IF ~(hasId /\ hasLat /\ hasLon) THEN Step(st1, None)
        ELSE LET st2 == [st1 EXCEPT !.cur_id = AddDelta(@, d.id[st1.dids]),
                                    !.cur_lat = AddDelta(@, d.lat[st1.dlats]),
                                    !.cur_lon = AddDelta(@, d.lon[st1.dlons])]
                 t == DenseTags(st2.keys_vals, d.keys_vals, block, EmptyTags)
                 st3 == [st2 EXCEPT !.keys_vals = t.pos]
             IN  IF ~t.ok THEN Step(st3, Panic)
                 ELSE Step(st3, Some([id |-> st3.cur_id,
                                      lat |-> make_lat(st3.cur_lat, block),
                                      lon |-> make_lon(st3.cur_lon, block),
                                      tags |-> t.tags]))

\* The refs copied as they are stored, not summed.
RECURSIVE WayNodes_raw(_, _, _)
WayNodes_raw(refs, i, n) ==
    IF i > Len(refs) THEN <<>>
    ELSE <<n + refs[i]>> \o WayNodes_raw(refs, i + 1, n)

\* refs.iter().map(|&dn| { n += dn; n }).collect()
RECURSIVE WayNodes(_, _, _)
WayNodes(refs, i, n) ==
    IF i > Len(refs) THEN <<>>
    ELSE <<n + refs[i]>> \o WayNodes(refs, i + 1, n + refs[i])

Ways_next(st) ==
    IF st.ways_iter >= Len(group.ways) THEN Step(st, None)
    ELSE LET w == group.ways[st.ways_iter + 1]
             tags == make_tags(w.keys, w.vals, block)
             st1 == [st EXCEPT !.ways_iter = @ + 1]
         IN  IF ~tags.ok THEN Step(st1, Panic)
             ELSE Step(st1, Some([id |-> w.id,
                                  nodes |-> WayNodes(w.refs, 1, 0),
                                  tags |-> tags.v]))

\* A WAY member taken for a node.
OsmId_way_as_node(t, m) ==
    CASE t = "NODE" -> [variant |-> "Node", id |-> m]
      [] t = "WAY" -> [variant |-> "Node", id |-> m]
      [] t = "RELATION" -> [variant |-> "Relation", id |-> m]

OsmId(t, m) ==
    CASE t = "NODE" -> [variant |-> "Node", id |-> m]
      [] t = "WAY" -> [variant |-> "Way", id |-> m]
      [] t = "RELATION" -> [variant |-> "Relation", id |-> m]

\* memids.zip(types).zip(roles_sid).map(...).collect()
RECURSIVE RelRefs(_, _, _, _)
RelRefs(rel, i, m, b) ==
    IF i > Len(rel.memids) \/ i > Len(rel.types) \/ i > Len(rel.roles_sid) THEN Ok(<<>>)
    ELSE LET m1 == m + rel.memids[i]
             role == make_string(AsUint(rel.roles_sid[i]), b)
             rest == RelRefs(rel, i + 1, m1, b)
         IN  IF ~role.ok \/ ~rest.ok THEN Fail
             ELSE Ok(<<[member |-> OsmId(rel.types[i], m1), role |-> role.v]>> \o rest.v)

Relations_next(st) ==
    IF st.relations_iter >= Len(group.relations) THEN Step(st, None)
    ELSE LET rel == group.relations[st.relations_iter + 1]
             refs == RelRefs(rel, 1, 0, block)
             tags == make_tags(rel.keys, rel.vals, block)
             st1 == [st EXCEPT !.relations_iter = @ + 1]
         IN  IF ~refs.ok \/ ~tags.ok THEN Step(st1, Panic)
             ELSE Step(st1, Some([id |-> rel.id, refs |-> refs.v, tags |-> tags.v]))

\* The two node producers chained the other way round.
Nodes_next_dense_first(st) ==
    IF st.nodes_flag THEN SimpleNodes_next(st)
    ELSE LET a == DenseNodes_next(st)
         IN  IF a.res.tag # "None" THEN a
             ELSE SimpleNodes_next([a.st EXCEPT !.nodes_flag = TRUE])

\* Chain<SimpleNodes, DenseNodes>::next
Nodes_next(st) ==
    IF st.nodes_flag THEN DenseNodes_next(st)
    ELSE LET a == SimpleNodes_next(st)
         IN  IF a.res.tag # "None" THEN a
             ELSE DenseNodes_next([a.st EXCEPT !.nodes_flag = TRUE])

node_into_obj(r) == IF r.tag = "Some" THEN Some([variant |-> "Node", val |-> r.v]) ELSE r
way_into_obj(r) == IF r.tag = "Some" THEN Some([variant |-> "Way", val |-> r.v]) ELSE r
rel_into_obj(r) == IF r.tag = "Some" THEN Some([variant |-> "Relation", val |-> r.v]) ELSE r

MapStep(s, res) == Step(s.st, res)

\* Chain<Map<Nodes>, Map<Ways>>::next
NodesWays_next(st) ==
    IF st.inner_flag THEN LET w == Ways_next(st) IN MapStep(w, way_into_obj(w.res))
    ELSE LET a == Nodes_next(st)
         IN  IF a.res.tag # "None" THEN MapStep(a, node_into_obj(a.res))
             ELSE LET w == Ways_next([a.st EXCEPT !.inner_flag = TRUE])
                  IN  MapStep(w, way_into_obj(w.res))

\* Chain<Chain<..>, Map<Relations>>::next
OsmObjs_next(st) ==
    IF st.outer_flag THEN LET r == Relations_next(st) IN MapStep(r, rel_into_obj(r.res))
    ELSE LET a == NodesWays_next(st)
         IN  IF a.res.tag # "None" THEN a
             ELSE LET r == Relations_next([a.st EXCEPT !.outer_flag = TRUE])
                  IN  MapStep(r, rel_into_obj(r.res))

\* ------------------------------------------------------------- behaviour
MergeRec(a, b) == [f \in (DOMAIN a) \cup (DOMAIN b) |-> IF f \in DOMAIN a THEN a[f] ELSE b[f]]
AllIters ==
    MergeRec(simple_nodes, MergeRec(dense_nodes, MergeRec(ways,
        MergeRec(relations, MergeRec(nodes, iter)))))

Init ==
    \E i \in Inputs :
        /\ block = i.block
        /\ group = i.group
        /\ caller = i.caller
        /\ it = AllIters
        /\ out = <<>>
        /\ kvlog = <<>>
        /\ last = "start"
        /\ aborted = FALSE

\* One pull whose outcome is s.
Pull(s) ==
    /\ it' = s.st
    /\ out' = IF s.res.tag = "Some" THEN Append(out, s.res.v) ELSE out
    /\ kvlog' = IF s.res.tag = "Some" /\ s.st.dids # it.dids
                THEN Append(kvlog, s.st.keys_vals) ELSE kvlog
    /\ last' = IF s.res.tag = "Panic" THEN last ELSE s.res.tag
    /\ aborted' = (s.res.tag = "Panic")
    /\ UNCHANGED <<block, group, caller>>

SimpleNodesNext == ~aborted /\ caller = "simple_nodes" /\ Pull(SimpleNodes_next(it))
DenseNodesNext == ~aborted /\ caller = "dense_nodes" /\ Pull(DenseNodes_next(it))
WaysNext == ~aborted /\ caller = "ways" /\ Pull(Ways_next(it))
RelationsNext == ~aborted /\ caller = "relations" /\ Pull(Relations_next(it))
NodesNext == ~aborted /\ caller = "nodes" /\ Pull(Nodes_next(it))
IterNext == ~aborted /\ caller = "iter" /\ Pull(OsmObjs_next(it))

Next ==
    \/ SimpleNodesNext
    \/ DenseNodesNext
    \/ WaysNext
    \/ RelationsNext
    \/ NodesNext
    \/ IterNext

Spec == Init /\ [][Next]_vars

\* ------------------------------------------------------------- claims
InTable(k) == k >= 0 /\ k < Len(block.s)
\* The text of string-table entry k (a text no entry has when k is outside).
Str(k) == IF InTable(k) THEN from_utf8_lossy(block.s[k + 1]) ELSE <<-1>>

RECURSIVE PrefixSum(_, _)
PrefixSum(s, k) == IF k = 0 THEN 0 ELSE PrefixSum(s, k - 1) + s[k]

Degrees(offset, c) == [nanodeg |-> offset + block.granularity * c]

\* tags maps the keys ks[1..m] to the values vs[1..m], a later pair winning.
TagsAre(tags, ks, vs, m) ==
    /\ DOMAIN tags = {Str(ks[i]) : i \in 1..m}
    /\ \A i \in 1..m :
        (\A j \in (i + 1)..m : Str(ks[j]) # Str(ks[i])) => tags[Str(ks[i])] = Str(vs[i])

DenseLen == Min3(Len(group.dense.id), Len(group.dense.lat), Len(group.dense.lon))
DenseAligned ==
    Len(group.dense.id) = Len(group.dense.lat) /\ Len(group.dense.lat) = Len(group.dense.lon)

\* C1: every Node of simple_nodes has lat = 1e-9 * (lat_offset + granularity *
\* stored lat) and lon = 1e-9 * (lon_offset + granularity * stored lon): each
\* axis uses its own offset.
C1_SimpleNodeAxes ==
    caller = "simple_nodes" =>
        \A k \in 1..Len(out) :
            /\ out[k].lat = Degrees(block.lat_offset, group.nodes[k].lat)
            /\ out[k].lon = Degrees(block.lon_offset, group.nodes[k].lon)

\* C2: when the three dense delta arrays all have length N, dense_nodes yields
\* exactly N Nodes; the k-th has id, lat and lon made from the sums of the first
\* k deltas (lat with lat_offset, lon with lon_offset), the sums starting at 0
\* and carrying over the whole group.
C2_DensePrefixSums ==
    (caller = "dense_nodes" /\ DenseAligned) =>
        /\ Len(out) <= DenseLen
        /\ last = "None" => Len(out) = DenseLen
        /\ \A k \in 1..Len(out) :
            /\ out[k].id = PrefixSum(group.dense.id, k)
            /\ out[k].lat = Degrees(block.lat_offset, PrefixSum(group.dense.lat, k))
            /\ out[k].lon = Degrees(block.lon_offset, PrefixSum(group.dense.lon, k))
        /\ ~aborted =>
            /\ it.cur_id = PrefixSum(group.dense.id, Len(out))
            /\ it.cur_lat = PrefixSum(group.dense.lat, Len(out))
            /\ it.cur_lon = PrefixSum(group.dense.lon, Len(out))

C2_Witness ==
    /\ caller = "dense_nodes" /\ DenseAligned /\ DenseLen = 2
    /\ Len(out) = 2 /\ last = "None"
    /\ block.lat_offset # block.lon_offset

NS == Len(group.nodes)
NW == Len(group.ways)
NR == Len(group.relations)
Total == NS + DenseLen + NW + NR

\* The kind and the id of the i-th element of the fixed sequence: the simple
\* nodes, the dense nodes, the ways, the relations, each in record order.
ExpectedAt(i) ==
    IF i <= NS THEN [variant |-> "Node", id |-> group.nodes[i].id]
    ELSE IF i <= NS + DenseLen
         THEN [variant |-> "Node", id |-> PrefixSum(group.dense.id, i - NS)]
    ELSE IF i <= NS + DenseLen + NW
         THEN [variant |-> "Way", id |-> group.ways[i - NS - DenseLen].id]
    ELSE [variant |-> "Relation", id |-> group.relations[i - NS - DenseLen - NW].id]

\* C3: after any number of pulls iter(g, b) has yielded a prefix of: every
\* simple node, then every dense node, then every way, then every relation, in
\* record order, each in the matching OsmObj variant; when it ends it has
\* yielded as many elements as the four producers together, none for a group
\* with no records.
C3_CombinedOrder ==
    caller = "iter" =>
        /\ Len(out) <= Total
        /\ \A i \in 1..Len(out) :
            /\ out[i].variant = ExpectedAt(i).variant
            /\ out[i].val.id = ExpectedAt(i).id
        /\ last = "None" => Len(out) = Total
        /\ \A i \in 1..Len(out) : \A j \in 1..(i - 1) :
            /\ out[i].variant = "Node" => out[j].variant = "Node"
            /\ out[j].variant = "Relation" => out[i].variant = "Relation"

C3_Witness ==
    /\ caller = "iter" /\ NS = 1 /\ DenseLen = 1 /\ NW = 1 /\ NR = 1
    /\ Len(out) = 4 /\ last = "None"
    /\ <<out[1].variant, out[2].variant, out[3].variant, out[4].variant>>
         = <<"Node", "Node", "Way", "Relation">>

C10_Counts ==
    /\ (caller = "dense_nodes" /\ ~DenseAligned) =>
        /\ Len(out) <= DenseLen
        /\ last = "None" => (Len(out) = DenseLen /\ ~aborted)
    /\ (caller = "iter" /\ ~DenseAligned) =>
        \A i \in 1..Len(out) :
            /\ i > NS + DenseLen => out[i].variant # "Node"
            /\ (i = NS + DenseLen + 1 /\ NW > 0) => out[i].variant = "Way"

C10_EndKeepsState ==
    (caller = "dense_nodes" /\ ~DenseAligned /\ last' = "None") =>
        /\ it'.cur_id = it.cur_id /\ it'.cur_lat = it.cur_lat /\ it'.cur_lon = it.cur_lon
        /\ it'.keys_vals = it.keys_vals
        /\ out' = out

C10_EndIsFinal ==
    (caller = "dense_nodes" /\ ~DenseAligned /\ last = "None") =>
        (last' = "None" /\ out' = out /\ ~aborted')

\* C10: with dense delta arrays of different lengths dense_nodes yields as many
\* Nodes as the shortest array has deltas and then ends; the pull that finds an
\* array exhausted changes no accumulator and not the stream position; every
\* later pull ends too; in the combined stream the ways follow directly.
C10_DenseTruncation ==
    [](C10_Counts) /\ [][C10_EndKeepsState /\ C10_EndIsFinal]_vars

C10_Witness ==
    /\ caller = "dense_nodes" /\ ~DenseAligned /\ DenseLen >= 1
    /\ last = "None" /\ Len(out) = DenseLen
    /\ it.dids > DenseLen
    /\ it.keys_vals < Len(group.dense.keys_vals)

KV == group.dense.keys_vals
\* Where in the stream the tags of the k-th dense Node start and end.
SegFrom(k) == IF k = 1 THEN 0 ELSE kvlog[k - 1]
SegTo(k) == kvlog[k]
\* The complete (key, value) pairs of stream positions from + 1 .. to.
SegPairs(from, to) == (to - from) \div 2
SegKeys(from, to) == [j \in 1..SegPairs(from, to) |-> KV[from + 2 * j - 1]]
SegVals(from, to) == [j \in 1..SegPairs(from, to) |-> KV[from + 2 * j]]
SegOdd(from, to) == (to - from) % 2 = 1

\* C4: the dense stream is consumed left to right across nodes: the first
\* node starts at the stream's start and each next node right after the
\* previous node's end; a node's segment ends with the first 0 in key position
\* (consumed) or with the stream; its tags are the segment's (key, value)
\* pairs, a 0 in value position being a value like any other.  The stream
\* [5, 7, 0, 3, 4] gives two nodes {table[5]: table[7]} and {table[3]: table[4]}.
C4_DenseTagStream ==
    caller = "dense_nodes" =>
        /\ Len(kvlog) = Len(out)
        /\ ~aborted => it.keys_vals = (IF out = <<>> THEN 0 ELSE kvlog[Len(out)])
        /\ \A k \in 1..Len(out) :
            LET from == SegFrom(k)
                to == SegTo(k)
            IN  /\ from <= to /\ to <= Len(KV)
                /\ \A j \in 1..SegPairs(from, to) : KV[from + 2 * j - 1] # 0
                /\ \/ to = Len(KV) /\ (SegOdd(from, to) => KV[to] # 0)
                   \/ SegOdd(from, to) /\ KV[to] = 0
                /\ TagsAre(out[k].tags, SegKeys(from, to), SegVals(from, to),
                           SegPairs(from, to))
        /\ (group = ExampleDense /\ block = ExampleBlock /\ Len(out) = 2) =>
            /\ out[1].tags = [x \in {Str(5)} |-> Str(7)]
            /\ out[2].tags = [x \in {Str(3)} |-> Str(4)]

C4_Witness ==
    /\ caller = "dense_nodes" /\ KV = <<5, 7, 0, 3, 4>>
    /\ Len(out) = 2 /\ kvlog = <<3, 5>>

\* The stream from position p on is whole pairs with non-zero keys and then
\* one more non-zero key: it ends exactly on a key.
EndsOnKey(p) ==
    /\ p < Len(KV) /\ SegOdd(p, Len(KV))
    /\ \A j \in 1..(SegPairs(p, Len(KV)) + 1) : KV[p + 2 * j - 1] # 0
PairsInTable(p) ==
    \A j \in 1..SegPairs(p, Len(KV)) :
        InTable(KV[p + 2 * j - 1]) /\ InTable(KV[p + 2 * j])
\* The stream position at which the pull that follows the Nodes in out starts.
PullStart == IF out = <<>> THEN 0 ELSE kvlog[Len(out)]

\* C7 as claimed: a stream ending exactly on a key never makes the pull fail,
\* whatever the trailing key is.
C7_DanglingKeyNeverFails ==
    (caller = "dense_nodes" /\ EndsOnKey(PullStart) /\ PairsInTable(PullStart)) => ~aborted

\* C7 as amended: when the stream ends exactly on a key whose index lies in the
\* string table (as those of the pairs before it do), the pull does not fail;
\* the Node is returned with the tags of the pairs before the key, and the
\* trailing key adds no tag.  The key is resolved before its value is looked
\* for, so a trailing key outside the table fails like any other.
C7_DanglingKeyDropped ==
    caller = "dense_nodes" =>
        /\ (EndsOnKey(PullStart) /\ PairsInTable(PullStart) /\ InTable(KV[Len(KV)]))
            => ~aborted
        /\ \A k \in 1..Len(out) :
            EndsOnKey(SegFrom(k)) =>
                /\ SegTo(k) = Len(KV)
                /\ TagsAre(out[k].tags, SegKeys(SegFrom(k), Len(KV)),
                           SegVals(SegFrom(k), Len(KV)), SegPairs(SegFrom(k), Len(KV)))
                /\ Cardinality(DOMAIN out[k].tags) <= SegPairs(SegFrom(k), Len(KV))

C7_Witness ==
    /\ caller = "dense_nodes" /\ Len(out) = 1 /\ ~aborted
    /\ EndsOnKey(0) /\ Len(KV) = 3 /\ KV[3] # KV[1]
    /\ Cardinality(DOMAIN out[1].tags) = 1

\* C5: a Way has as many node ids as its record has refs, the k-th being the
\* sum of the first k refs of that record alone (refs [3, -1, 2] give
\* [3, 2, 4]); ways come one per record, in record order, with the record's id.
C5_WayRefs ==
    caller = "ways" =>
        /\ Len(out) <= NW
        /\ last = "None" => Len(out) = NW
        /\ \A k \in 1..Len(out) :
            /\ out[k].id = group.ways[k].id
            /\ Len(out[k].nodes) = Len(group.ways[k].refs)
            /\ \A j \in 1..Len(out[k].nodes) :
                out[k].nodes[j] = PrefixSum(group.ways[k].refs, j)
        /\ (group = ExampleWay /\ Len(out) = 1) => out[1].nodes = <<3, 2, 4>>

C5_Witness ==
    /\ caller = "ways" /\ Len(out) = 2 /\ last = "None"
    /\ Len(out[1].nodes) = 2 /\ Len(out[2].nodes) = 1

Variant(t) == IF t = "NODE" THEN "Node" ELSE IF t = "WAY" THEN "Way" ELSE "Relation"
Members(rel) == Min3(Len(rel.memids), Len(rel.types), Len(rel.roles_sid))

\* C6: a Relation has min(|memids|, |types|, |roles_sid|) Refs; the k-th has
\* the OsmId variant of the k-th type, the sum of the first k memids of that
\* record alone as id, and the string of the k-th role index as role (memids
\* [10, -4] with types [NODE, WAY] give Node(10), Way(6)).
C6_RelationRefs ==
    caller = "relations" =>
        /\ \A k \in 1..Len(out) :
            LET rel == group.relations[k]
            IN  /\ out[k].id = rel.id
                /\ Len(out[k].refs) = Members(rel)
                /\ \A j \in 1..Len(out[k].refs) :
                    /\ out[k].refs[j].member =
                         [variant |-> Variant(rel.types[j]), id |-> PrefixSum(rel.memids, j)]
                    /\ out[k].refs[j].role = Str(rel.roles_sid[j])
        /\ (group = ExampleRelation /\ Len(out) = 1) =>
            /\ out[1].refs[1].member = [variant |-> "Node", id |-> 10]
            /\ out[1].refs[2].member = [variant |-> "Way", id |-> 6]

C6_Witness ==
    /\ caller = "relations" /\ Len(out) = 2
    /\ Len(group.relations[1].memids) = 2 /\ Len(out[1].refs) = 2
    /\ Len(group.relations[2].memids) = 2 /\ Len(out[2].refs) = 1
    /\ out[1].refs[2].member = [variant |-> "Way", id |-> 6]
    /\ out[2].refs[1].member = [variant |-> "Relation", id |-> -4]

\* The record a producer of simple nodes, ways or relations decodes k-th.
Records ==
    CASE caller = "simple_nodes" -> group.nodes
      [] caller = "ways" -> group.ways
      [] caller = "relations" -> group.relations
      [] OTHER -> <<>>
Pairs(rec) == Min2(Len(rec.keys), Len(rec.vals))
PrefixInTable(rec) ==
    /\ \A i \in 1..Pairs(rec) : InTable(rec.keys[i]) /\ InTable(rec.vals[i])
    /\ caller = "relations" => \A i \in 1..Members(rec) : InTable(rec.roles_sid[i])

\* C8: make_tags (simple nodes, ways, relations) resolves exactly the first
\* min(|keys|, |vals|) pairs: the map has their keys and no other, each key
\* with the value of the last pair having it, and nothing beyond the common
\* prefix is looked up, so that a difference of lengths makes no pull fail.
C8_MakeTags ==
    caller \in {"simple_nodes", "ways", "relations"} =>
        /\ Len(out) <= Len(Records)
        /\ \A k \in 1..Len(out) :
            TagsAre(out[k].tags, Records[k].keys, Records[k].vals, Pairs(Records[k]))
        /\ aborted => ~PrefixInTable(Records[Len(out) + 1])

C8_Witness ==
    /\ caller = "simple_nodes" /\ Len(out) = 2 /\ last = "None"
    /\ group.nodes[2].keys = <<1, 1>> /\ group.nodes[2].vals = <<1, 2>>
    /\ out[2].tags = [x \in {Str(1)} |-> Str(2)]
    /\ Str(2) # Str(1)

\* The producer a failed pull was in.
Active ==
    CASE caller = "simple_nodes" -> "simple"
      [] caller = "dense_nodes" -> "dense"
      [] caller = "ways" -> "ways"
      [] caller = "relations" -> "relations"
      [] caller = "nodes" -> IF it.nodes_flag THEN "dense" ELSE "simple"
      [] caller = "iter" ->
            IF it.outer_flag THEN "relations"
            ELSE IF it.inner_flag THEN "ways"
            ELSE IF it.nodes_flag THEN "dense" ELSE "simple"
TagsInTable(rec) ==
    \A i \in 1..Pairs(rec) : InTable(rec.keys[i]) /\ InTable(rec.vals[i])
RolesInTable(rel) == \A i \in 1..Members(rel) : InTable(rel.roles_sid[i])

\* C9: a pull of any producer fails only on a string index outside the table:
\* the record being decoded has such an index among the tag pairs or roles it
\* resolves, or the dense stream entry just read (negative entries included)
\* is one.  Different array lengths, a truncated stream and a trailing key end
\* a sequence or drop the fragment; they make no pull fail.
C9_OnlyTableIndexAborts ==
    aborted =>
        CASE Active = "simple" ->
                it.simple_iter >= 1 /\ ~TagsInTable(group.nodes[it.simple_iter])
          [] Active = "dense" ->
                it.keys_vals >= 1 /\ ~InTable(KV[it.keys_vals])
          [] Active = "ways" ->
                it.ways_iter >= 1 /\ ~TagsInTable(group.ways[it.ways_iter])
          [] Active = "relations" ->
                /\ it.relations_iter >= 1
                /\ ~(TagsInTable(group.relations[it.relations_iter])
                     /\ RolesInTable(group.relations[it.relations_iter]))

C9_Witness ==
    /\ caller = "simple_nodes" /\ last = "None" /\ ~aborted /\ Len(out) = 1
    /\ Len(group.nodes[1].keys) = 2 /\ Len(group.nodes[1].vals) = 1
    /\ ~InTable(group.nodes[1].keys[2])

====
